---- MODULE Spec2Model ----
(***************************************************************************)
(* Model of the homework-progress server: the outline parser               *)
(* parseFileContent and the POST /upload handler, in the four variants of  *)
(* the server that the repository carries:                                 *)
(*   "index_a"   src/index.js lines 1-218   (memory storage, guarded       *)
(*               header rule)                                              *)
(*   "index_b"   src/index.js lines 219-390 (memory storage)               *)
(*   "part_000"  src/unnamed/part_000       (memory storage)               *)
(*   "part_001"  src/unnamed/part_001       (disk storage, the parser      *)
(*               takes a file path and reads the file)                     *)
(* A string is a sequence of one-character strings.                        *)
(***************************************************************************)
EXTENDS Integers, Sequences, FiniteSets, TLC

VARIABLES variant, nodeEnv, fs, pc, input, lines, i, result, currentSubject,
          retval, ncalls, history, exchange, handled

vars == <<variant, nodeEnv, fs, pc, input, lines, i, result, currentSubject,
          retval, ncalls, history, exchange, handled>>

Variants == {"index_a", "index_b", "part_000", "part_001"}

(***************************************************************************)
(* Bounds of the model.                                                    *)
(***************************************************************************)
MaxLines == 3
MaxLineLen == 4
MaxCalls == 3
MaxRequests == 2

(***************************************************************************)
(* Characters and JavaScript string primitives.                            *)
(***************************************************************************)
LF == "\n"
CR == "\r"
SP == " "

\* String.prototype.trim and the regular expression class \s strip/match the
\* same characters (WhiteSpace and LineTerminator); of the characters of the
\* model these are the space, CR and LF.
IsWs(c) == c \in {SP, CR, LF}

\* The characters the regular expression `.` does not match.
IsLineTerminator(c) == c \in {CR, LF}

\* Index of the first character of s at or after position k that is not
\* white space; Len(s) + 1 when there is none.
RECURSIVE SkipWs(_, _)
SkipWs(s, k) == IF k > Len(s) THEN Len(s) + 1
                ELSE IF IsWs(s[k]) THEN SkipWs(s, k + 1) ELSE k

\* Index of the last character of s at or before position k that is not
\* white space; 0 when there is none.
RECURSIVE SkipWsBack(_, _)
SkipWsBack(s, k) == IF k < 1 THEN 0
                    ELSE IF IsWs(s[k]) THEN SkipWsBack(s, k - 1) ELSE k

\* s.trim()
Trim(s) == SubSeq(s, SkipWs(s, 1), SkipWsBack(s, Len(s)))

\* s.startsWith(p)
StartsWith(s, p) == Len(s) >= Len(p) /\ SubSeq(s, 1, Len(p)) = p

\* s.substring(k), k counted from 0 as in JavaScript
Substring(s, k) == SubSeq(s, k + 1, Len(s))

\* Mutant: the bracket's mark is compared as written, without toLowerCase.
ToLowerCase_Missing(c) == c

\* c.toLowerCase() on the characters of the model
ToLowerCase(c) == IF c = "X" THEN "x" ELSE IF c = "A" THEN "a"
                  ELSE IF c = "B" THEN "b" ELSE c

\* content.split('\n'): the pieces between line feeds, always at least one.
RECURSIVE SplitFrom(_, _, _)
SplitFrom(s, k, cur) ==
    IF k > Len(s) THEN <<cur>>
    ELSE IF s[k] = LF THEN <<cur>> \o SplitFrom(s, k + 1, <<>>)
    ELSE SplitFrom(s, k + 1, Append(cur, s[k]))

Split(s) == SplitFrom(s, 1, <<>>)

\* ls.join('\n')
RECURSIVE Join(_)
Join(ls) == IF Len(ls) = 0 THEN <<>>
            ELSE IF Len(ls) = 1 THEN ls[1]
            ELSE ls[1] \o <<LF>> \o Join(Tail(ls))

(***************************************************************************)
(* parseFileContent: the per-line rules.                                   *)
(***************************************************************************)

\* The value of a match of /^-\s*\[(x| )\]\s*(.*)$/i that failed.
NoMatch == [matched |-> FALSE, g1 |-> SP, g2 |-> <<>>]

\* Mutant: the pattern with the hyphen optional, /^-?\s*\[(x| )\]\s*(.*)$/i.
TaskMatch_HyphenOptional(line) ==
    LET j == SkipWs(line, IF Len(line) > 0 /\ line[1] = "-" THEN 2 ELSE 1) IN
    IF j + 2 > Len(line) THEN NoMatch
    ELSE IF line[j] # "[" \/ line[j + 1] \notin {"x", "X", SP} \/ line[j + 2] # "]"
         THEN NoMatch
    ELSE LET k == SkipWs(line, j + 3) IN
         IF \E n \in k .. Len(line) : IsLineTerminator(line[n])
         THEN NoMatch
         ELSE [matched |-> TRUE, g1 |-> line[j + 1], g2 |-> SubSeq(line, k, Len(line))]

\* line.match(/^-\s*\[(x| )\]\s*(.*)$/i).  After the hyphen, \s* can only end
\* at the first character that is not white space, which must be "[" ; the
\* bracket holds x, X (flag i) or one space; (.*)$ must reach the end of the
\* line, so past the white space that follows the bracket there may be no line
\* terminator (`.` does not match one), and the greedy \s* leaves group 2
\* starting at the first character that is not white space.
TaskMatch(line) ==
    IF Len(line) = 0 \/ line[1] # "-" THEN NoMatch
    ELSE LET j == SkipWs(line, 2) IN
         IF j + 2 > Len(line) THEN NoMatch
         ELSE IF line[j] # "[" \/ line[j + 1] \notin {"x", "X", SP} \/ line[j + 2] # "]"
              THEN NoMatch
         ELSE LET k == SkipWs(line, j + 3)
                  rest == SubSeq(line, k, Len(line))
              IN IF \E n \in k .. Len(line) : IsLineTerminator(line[n])
                 THEN NoMatch
                 ELSE [matched |-> TRUE, g1 |-> line[j + 1], g2 |-> rest]

\* The task a non-empty line that is no header stands for.
TaskOf(line) ==
    LET match == TaskMatch(line) IN
    IF match.matched
    THEN [text |-> Trim(match.g2), completed |-> (ToLowerCase(match.g1) = "x")]
    ELSE [text |-> line, completed |-> FALSE]

\* The subject a header line creates.
NewSubject(subjectName) ==
    [name |-> subjectName, tasks |-> <<>>, completed |-> 0, total |-> 0]

\* Mutant: the name is the remainder as it stands, not trimmed.
SubjectName_Untrimmed(line) == Substring(line, 2)

\* The name a header line gives: line.substring(2).trim()
SubjectName(line) == Trim(Substring(line, 2))

\* Whether the variant creates a subject for a header line with this name:
\* the first server of src/index.js asks for a non-empty name, the other
\* three create the subject whatever the name.
CreatesSubject(v, subjectName) ==
    IF v = "index_a" THEN subjectName # <<>> ELSE TRUE

\* Mutant: completed is counted for every task, done or not.
PushTask_CountsEveryTask(subject, task) ==
    [subject EXCEPT !.tasks = Append(@, task),
                    !.total = @ + 1,
                    !.completed = @ + 1]

\* currentSubject.tasks.push(task); total++; completed++ when the task is done
PushTask(subject, task) ==
    [subject EXCEPT !.tasks = Append(@, task),
                    !.total = @ + 1,
                    !.completed = IF task.completed THEN @ + 1 ELSE @]

\* Mutant: the task rule without its test that the line is not empty.
ProcessLine_KeepsBlank(v, st, raw) ==
    LET line == Trim(raw) IN
    IF StartsWith(line, <<"#", "#">>)
    THEN IF CreatesSubject(v, SubjectName(line))
         THEN [result |-> Append(st.result, NewSubject(SubjectName(line))),
               currentSubject |-> Len(st.result) + 1]
         ELSE st
    ELSE IF st.currentSubject # 0
    THEN [result |-> [st.result EXCEPT ![st.currentSubject] = PushTask(@, TaskOf(line))],
          currentSubject |-> st.currentSubject]
    ELSE st

\* One pass of the loop body.  st = [result, currentSubject]; currentSubject is
\* the position in result of the object the variable refers to, 0 for null.
ProcessLine(v, st, raw) ==
    LET line == Trim(raw) IN
    IF StartsWith(line, <<"#", "#">>)
    THEN IF CreatesSubject(v, SubjectName(line))
         THEN [result |-> Append(st.result, NewSubject(SubjectName(line))),
               currentSubject |-> Len(st.result) + 1]
         ELSE st
    ELSE IF line # <<>> /\ st.currentSubject # 0
    THEN [result |-> [st.result EXCEPT ![st.currentSubject] = PushTask(@, TaskOf(line))],
          currentSubject |-> st.currentSubject]
    ELSE st

\* Mutant: result and currentSubject kept at module level, so that a call
\* starts from what the call before it left.
FreshLocals_Shared(prevResult, prevSubject) ==
    [result |-> prevResult, currentSubject |-> prevSubject]

\* const result = []; let currentSubject = null;  (prevResult, prevSubject:
\* what an earlier call left behind, which the locals do not see)
FreshLocals(prevResult, prevSubject) == [result |-> <<>>, currentSubject |-> 0]

\* The whole loop over the lines from position k on.
RECURSIVE ScanFrom(_, _, _, _)
ScanFrom(v, st, ls, k) ==
    IF k > Len(ls) THEN st
    ELSE ScanFrom(v, ProcessLine(v, st, ls[k]), ls, k + 1)

\* parseFileContent on a string that holds the document.
ParseString(v, content) ==
    ScanFrom(v, FreshLocals(<<>>, 0), Split(content), 1).result

(***************************************************************************)
(* Values handed to parseFileContent, and the documents of the model.      *)
(***************************************************************************)
Str(chars) == [type |-> "string", chars |-> chars]
Null == [type |-> "null", chars |-> <<>>]
Undefined == [type |-> "undefined", chars |-> <<>>]

\* The lines the outlines of the model are made of.
OutlineLines ==
    { <<>>,
      <<CR>>,
      <<"#", "#">>,
      <<SP, "#", "#", SP, "A", CR>>,
      <<"#", "#", "B">>,
      <<"-", SP, "[", "x", "]", SP, "t">>,
      <<"-", "[", "X", "]", "u">>,
      <<"-", SP, "[", SP, "]", SP, "v">>,
      <<"[", "x", "]", SP, "t">>,
      <<"w">> }

OutlineDocs ==
    { Join(ls) : ls \in UNION { [1 .. n -> OutlineLines] : n \in 0 .. MaxLines } }

\* Every line of at most MaxLineLen characters of the alphabet of the task
\* pattern, each under the header "##A".
Alphabet == {"#", "-", "[", "]", "x", "X", SP, CR, "t"}

ProbeLines == UNION { [1 .. n -> Alphabet] : n \in 1 .. MaxLineLen }

ProbeDocs == { <<"#", "#", "A", LF>> \o l : l \in ProbeLines }

Docs == OutlineDocs \cup ProbeDocs

(***************************************************************************)
(* The file system of the disk variant: the one file multer writes.        *)
(***************************************************************************)
UploadPath == <<"u", "p", "l", "o", "a", "d", "s", "/", "1">>

NoFile == [exists |-> FALSE, data |-> <<>>]
File(data) == [exists |-> TRUE, data |-> data]

\* fs.readFileSync(filePath, 'utf8'): the data, or ENOENT thrown
ReadFileSync(disk, filePath) ==
    IF filePath = UploadPath /\ disk.exists
    THEN [ok |-> TRUE, chars |-> disk.data]
    ELSE [ok |-> FALSE, chars |-> <<>>]

\* The string the loop scans, or the fault of the first statements of the
\* try block: content.split of a value that is no string throws a TypeError,
\* and the disk variant reads the file its argument names.
ContentOf(v, disk, in) ==
    IF in.type # "string" THEN [ok |-> FALSE, chars |-> <<>>]
    ELSE IF v = "part_001" THEN ReadFileSync(disk, in.chars)
    ELSE [ok |-> TRUE, chars |-> in.chars]

NoValue == [set |-> FALSE, value |-> <<>>]

(***************************************************************************)
(* One call of parseFileContent, a line at a time.                         *)
(***************************************************************************)
\* try { const lines = content.split('\n'); const result = []; let
\* currentSubject = null;
Enter ==
    /\ pc = "call"
    /\ ContentOf(variant, fs, input).ok
    /\ lines' = Split(ContentOf(variant, fs, input).chars)
    /\ i' = 1
    /\ result' = FreshLocals(result, currentSubject).result
    /\ currentSubject' = FreshLocals(result, currentSubject).currentSubject
    /\ pc' = "scan"
    /\ UNCHANGED <<variant, nodeEnv, fs, input, retval, ncalls, history, exchange, handled>>

\* } catch (error) { console.error(...); throw error; }
Throw ==
    /\ pc = "call"
    /\ ~ContentOf(variant, fs, input).ok
    /\ pc' = "threw"
    /\ history' = Append(history, [input |-> input, threw |-> TRUE, value |-> <<>>])
    /\ UNCHANGED <<variant, nodeEnv, fs, input, lines, i, result, currentSubject,
                   retval, ncalls, exchange, handled>>

\* the body of the loop for the line at position i
ScanLine ==
    /\ pc = "scan"
    /\ i <= Len(lines)
    /\ LET st == ProcessLine(variant,
                             [result |-> result, currentSubject |-> currentSubject],
                             lines[i])
       IN /\ result' = st.result
          /\ currentSubject' = st.currentSubject
    /\ i' = i + 1
    /\ UNCHANGED <<variant, nodeEnv, fs, pc, input, lines, retval, ncalls, history,
                   exchange, handled>>

\* return result;
Return ==
    /\ pc = "scan"
    /\ i > Len(lines)
    /\ retval' = [set |-> TRUE, value |-> result]
    /\ pc' = "returned"
    /\ history' = Append(history, [input |-> input, threw |-> FALSE, value |-> result])
    /\ UNCHANGED <<variant, nodeEnv, fs, input, lines, i, result, currentSubject,
                   ncalls, exchange, handled>>

\* The arguments of the model for a variant: the memory variants take the
\* document, the disk variant the path of the uploaded file.
Arguments(v, docs) ==
    IF v = "part_001" THEN {Str(UploadPath), Null, Undefined}
    ELSE {Str(d) : d \in docs} \cup {Null, Undefined}

Disks(v, docs) ==
    IF v = "part_001" THEN {NoFile} \cup {File(d) : d \in docs} ELSE {NoFile}

\* No request has been answered yet.
NoExchange == [request |-> <<>>, sent |-> <<>>]

InitWith(docs) ==
    /\ variant \in Variants
    /\ nodeEnv = "development"
    /\ fs \in Disks(variant, docs)
    /\ input \in Arguments(variant, docs)
    /\ pc = "call"
    /\ lines = <<>>
    /\ i = 1
    /\ result = <<>>
    /\ currentSubject = 0
    /\ retval = NoValue
    /\ ncalls = 1
    /\ history = <<>>
    /\ exchange = NoExchange
    /\ handled = 0

Init == InitWith(Docs)

Next == Enter \/ Throw \/ ScanLine \/ Return

Spec == Init /\ [][Next]_vars

(***************************************************************************)
(* What the outline format says of a line, stated apart from the code.     *)
(***************************************************************************)
\* The trimmed line begins with the header marker.
HeaderLine(raw) ==
    LET t == Trim(raw) IN Len(t) >= 2 /\ t[1] = "#" /\ t[2] = "#"

\* Nothing but white space.
BlankLine(raw) == \A n \in 1 .. Len(raw) : IsWs(raw[n])

\* The positions at which the bracket of a checkbox can open in the trimmed
\* line t: a hyphen, white space, the bracket with its mark, white space, and
\* text without a line terminator up to the end.
BracketPositions(t) ==
    { p \in 2 .. Len(t) - 2 :
        /\ t[1] = "-"
        /\ \A n \in 2 .. p - 1 : IsWs(t[n])
        /\ t[p] = "[" /\ t[p + 1] \in {"x", "X", SP} /\ t[p + 2] = "]"
        /\ \E q \in p + 3 .. Len(t) + 1 :
              /\ \A n \in p + 3 .. q - 1 : IsWs(t[n])
              /\ \A n \in q .. Len(t) : ~IsLineTerminator(t[n]) }

IsCheckbox(t) == BracketPositions(t) # {}

\* The task the outline format gives a trimmed task line.
ExpectedTask(t) ==
    IF IsCheckbox(t)
    THEN LET p == CHOOSE p \in BracketPositions(t) : TRUE
         IN [text |-> Trim(SubSeq(t, p + 3, Len(t))),
             completed |-> (t[p + 1] \in {"x", "X"})]
    ELSE [text |-> t, completed |-> FALSE]

\* The same with the hyphen optional: a line that opens with the bracket and
\* is a checkbox once the hyphen stands before it is read as that checkbox.
ExpectedTaskHyphenOptional(t) ==
    IF Len(t) > 0 /\ t[1] = "[" /\ IsCheckbox(<<"-">> \o t)
    THEN ExpectedTask(<<"-">> \o t)
    ELSE ExpectedTask(t)

\* The scan is about to process a task line: not blank, no header, and a
\* current subject exists.
AtTaskLine ==
    /\ pc = "scan" /\ i <= Len(lines)
    /\ ~BlankLine(lines[i]) /\ ~HeaderLine(lines[i])
    /\ currentSubject # 0

AtHeaderLine == pc = "scan" /\ i <= Len(lines) /\ HeaderLine(lines[i])

\* The subjects the caller can see: the accumulating result, and what was
\* returned.
AllSubjects ==
    {result[k] : k \in 1 .. Len(result)}
        \cup {retval.value[k] : k \in 1 .. Len(retval.value)}

NumberDone(tasks) == Cardinality({k \in 1 .. Len(tasks) : tasks[k].completed})

(***************************************************************************)
(* C1: after any prefix of the lines, and in the returned result, every    *)
(* subject has total = number of its tasks, completed = number of its      *)
(* tasks that are done, and 0 <= completed <= total.                       *)
(***************************************************************************)
C1_CountersMatchTasks ==
    \A s \in AllSubjects :
        /\ s.total = Len(s.tasks)
        /\ s.completed = NumberDone(s.tasks)
        /\ 0 <= s.completed /\ s.completed <= s.total

\* a scan in progress holds a subject with a done and an open task
C1_Witness ==
    /\ pc = "scan"
    /\ \E k \in 1 .. Len(result) :
          result[k].total = 2 /\ result[k].completed = 1

(***************************************************************************)
(* C2: every line whose trimmed form begins with ## creates a subject named *)
(* by the trimmed remainder, with no tasks and both counters 0, appends it  *)
(* to the result and makes it the current subject, also when the remainder  *)
(* is empty.                                                                *)
(***************************************************************************)
C2_HeaderAlwaysCreates ==
    [][AtHeaderLine =>
          /\ result' = Append(result,
                 [name |-> Trim(SubSeq(Trim(lines[i]), 3, Len(Trim(lines[i])))),
                  tasks |-> <<>>, completed |-> 0, total |-> 0])
          /\ currentSubject' = Len(result')]_vars

(***************************************************************************)
(* C3 as written: every returned subject has a non-empty name without      *)
(* leading or trailing white space.                                        *)
(***************************************************************************)
NoOuterWs(name) ==
    name = <<>> \/ (~IsWs(name[1]) /\ ~IsWs(name[Len(name)]))

C3_NamesNonEmpty ==
    \A k \in 1 .. Len(retval.value) :
        retval.value[k].name # <<>> /\ NoOuterWs(retval.value[k].name)

(***************************************************************************)
(* C3 as amended: every subject has a name without leading or trailing     *)
(* white space; the name is non-empty in the first server of src/index.js  *)
(* and may be empty in the other variants.                                 *)
(***************************************************************************)
C3_NamesTrimmed ==
    \A s \in AllSubjects :
        /\ NoOuterWs(s.name)
        /\ s.name = <<>> => variant # "index_a"

\* a returned result with a subject of the empty name and one whose header
\* line carried white space around the name
C3_Witness ==
    /\ pc = "returned"
    /\ \E k \in 1 .. Len(retval.value) : retval.value[k].name = <<>>
    /\ \E k \in 1 .. Len(retval.value) : retval.value[k].name = <<"A">>
    /\ \E k \in 1 .. Len(lines) : lines[k] = <<SP, "#", "#", SP, "A", CR>>

(***************************************************************************)
(* C4 as written: the hyphen of the checkbox pattern is optional, so under *)
(* a current subject the line "[x] text" gives the task "- [x] text"       *)
(* gives: text the trimmed remainder, completed by the bracket's mark.     *)
(***************************************************************************)
LastTask(subject) == subject.tasks[Len(subject.tasks)]

C4_HyphenOptional ==
    [][AtTaskLine =>
          LastTask(result'[currentSubject])
              = ExpectedTaskHyphenOptional(Trim(lines[i]))]_vars

(***************************************************************************)
(* C4 as amended: the hyphen is required.  Under a current subject a line  *)
(* that opens with the bracket, "[x] text" or "[ ] text", is no checkbox   *)
(* and gives a task with the whole trimmed line as text and completed      *)
(* false; with the hyphen before it the same line gives the trimmed        *)
(* remainder after the bracket as text and completed by the mark.          *)
(***************************************************************************)
C4_HyphenRequired ==
    [][AtTaskLine =>
          LET t == Trim(lines[i])
              new == LastTask(result'[currentSubject])
          IN /\ (t[1] = "[" /\ IsCheckbox(<<"-">> \o t))
                    => new = [text |-> t, completed |-> FALSE]
             /\ (t[1] = "-" /\ IsCheckbox(t))
                    => new = ExpectedTask(t)]_vars

\* the line "[x] t" was processed under a subject and became a plain task
C4_Witness ==
    /\ pc = "scan" /\ i > 1 /\ currentSubject # 0
    /\ lines[i - 1] = <<"[", "x", "]", SP, "t">>
    /\ LastTask(result[currentSubject])
           = [text |-> <<"[", "x", "]", SP, "t">>, completed |-> FALSE]

(***************************************************************************)
(* C5: a line that is not empty after trimming, is no header and meets a   *)
(* current subject appends exactly one task to that subject and to no      *)
(* other; the task is done exactly when the line is a checkbox with the    *)
(* mark x or X, its text is the trimmed remainder after the bracket for a  *)
(* checkbox and the whole trimmed line, not done, otherwise.               *)
(***************************************************************************)
C5_TaskRule ==
    [][AtTaskLine =>
          /\ Len(result') = Len(result)
          /\ currentSubject' = currentSubject
          /\ \A k \in 1 .. Len(result) :
                result'[k].tasks =
                    IF k = currentSubject
                    THEN Append(result[k].tasks, ExpectedTask(Trim(lines[i])))
                    ELSE result[k].tasks]_vars

\* the line "-[X]u" was processed under a subject and became a done task
C5_Witness ==
    /\ pc = "scan" /\ i > 1 /\ currentSubject # 0
    /\ lines[i - 1] = <<"-", "[", "X", "]", "u">>
    /\ LastTask(result[currentSubject]) = [text |-> <<"u">>, completed |-> TRUE]

(***************************************************************************)
(* C6: a string argument always gets a sequence of subjects returned and   *)
(* never a fault; a fault is raised only for an argument that is no        *)
(* string, and then nothing is returned.                                   *)
(***************************************************************************)
C6_ThrowsOnlyForNonStrings ==
    /\ pc = "threw" => (input.type # "string" /\ ~retval.set)
    /\ pc = "returned" => (input.type = "string" /\ retval.set)

(***************************************************************************)
(* C7: blank lines, and lines before the first header that are no header,  *)
(* have no effect: the result is that of the document without them, and a  *)
(* document without a header line gives the empty sequence.                *)
(***************************************************************************)
\* The lines of ls from position k on that are not discarded.
RECURSIVE KeptLines(_, _, _)
KeptLines(ls, k, underHeader) ==
    IF k > Len(ls) THEN <<>>
    ELSE IF BlankLine(ls[k]) \/ (~underHeader /\ ~HeaderLine(ls[k]))
         THEN KeptLines(ls, k + 1, underHeader)
         ELSE <<ls[k]>> \o KeptLines(ls, k + 1, underHeader \/ HeaderLine(ls[k]))

C7_DiscardedLinesHaveNoEffect ==
    pc = "returned" =>
        /\ retval.value = ParseString(variant, Join(KeptLines(lines, 1, FALSE)))
        /\ (\A k \in 1 .. Len(lines) : ~HeaderLine(lines[k])) => retval.value = <<>>

\* a returned parse of a document with an orphan line, a header, a blank
\* line and a task
C7_Witness ==
    /\ pc = "returned"
    /\ Len(lines) = 3
    /\ ~BlankLine(lines[1]) /\ ~HeaderLine(lines[1])
    /\ HeaderLine(lines[2])
    /\ BlankLine(lines[3])
    /\ Len(retval.value) = 1
    /\ KeptLines(lines, 1, FALSE) = <<lines[2]>>

(***************************************************************************)
(* C10: a task goes to the subject of the nearest header line before it,   *)
(* any line that begins with ## being a header line: that subject is the   *)
(* last of the result, bears that header's name, and its tasks are those   *)
(* of the lines after that header, in the order of the lines.              *)
(***************************************************************************)
\* The position of the last header line of ls before position k, 0 if none.
RECURSIVE HeaderBefore(_, _)
HeaderBefore(ls, k) ==
    IF k <= 1 THEN 0
    ELSE IF HeaderLine(ls[k - 1]) THEN k - 1 ELSE HeaderBefore(ls, k - 1)

\* The tasks of the lines of ls at positions k .. last.
RECURSIVE TasksOfLines(_, _, _)
TasksOfLines(ls, k, last) ==
    IF k > last THEN <<>>
    ELSE IF BlankLine(ls[k]) THEN TasksOfLines(ls, k + 1, last)
         ELSE <<ExpectedTask(Trim(ls[k]))>> \o TasksOfLines(ls, k + 1, last)

HeaderName(raw) == Trim(SubSeq(Trim(raw), 3, Len(Trim(raw))))

C10_TasksUnderNearestHeader ==
    [][AtTaskLine =>
          LET h == HeaderBefore(lines, i) IN
          /\ h > 0
          /\ currentSubject = Len(result)
          /\ result'[currentSubject].name = HeaderName(lines[h])
          /\ result'[currentSubject].tasks = TasksOfLines(lines, h + 1, i)]_vars

(***************************************************************************)
(* Calls of parseFileContent one after the other, as the requests of the   *)
(* server make them.                                                       *)
(***************************************************************************)
CallDocs ==
    { <<>>,
      <<"w">>,
      <<"#", "#", "A">>,
      <<"#", "#", "A", LF, "w">>,
      <<"#", "#", "A", LF, "-", "[", "x", "]", "t">>,
      <<"#", "#", LF, "w">>,
      <<"w", LF, "#", "#", "B">> }

\* const parsedData = parseFileContent(fileContent): the next call, made when
\* the one before it has returned or thrown.  The variables of the finished
\* call are left as they are.
Invoke ==
    /\ pc \in {"returned", "threw"}
    /\ ncalls < MaxCalls
    /\ \E in \in Arguments(variant, CallDocs) : input' = in
    /\ pc' = "call"
    /\ retval' = NoValue
    /\ ncalls' = ncalls + 1
    /\ UNCHANGED <<variant, nodeEnv, fs, lines, i, result, currentSubject, history,
                   exchange, handled>>

InitCalls == InitWith(CallDocs)

NextCalls == Enter \/ Throw \/ ScanLine \/ Return \/ Invoke

SpecCalls == InitCalls /\ [][NextCalls]_vars

(***************************************************************************)
(* C9: two calls with the same argument give equal outcomes, whatever      *)
(* calls were made before or between them.                                 *)
(***************************************************************************)
C9_SameInputSameResult ==
    \A a, b \in 1 .. Len(history) :
        history[a].input = history[b].input => history[a] = history[b]

\* three calls have ended, the first and the third on the same document, the
\* second on another, and each returned a subject
C9_Witness ==
    /\ Len(history) = 3
    /\ history[1].input = history[3].input
    /\ history[2].input # history[1].input
    /\ history[1].value # <<>> /\ history[2].value # <<>>
    /\ history[3].value = history[1].value

(***************************************************************************)
(* POST /upload.  A request carries at most one file part in the field     *)
(* homeworkFile; a file name is the sequence of its pieces between dots.   *)
(***************************************************************************)
FileNames == { <<"a", "txt">>, <<"a", "MD">>, <<"md">>, <<"a", "exe">> }

MimeTypes == {"text/plain", "application/octet-stream"}

\* "small": at most 5 MB; "medium": above 5 MB, at most 10 MB; "large": more.
Sizes == {"small", "medium", "large"}

UploadDocs ==
    { <<>>,
      <<"w">>,
      <<"#", "#">>,
      <<"#", "#", "A", LF, "-", "[", "x", "]", "t">> }

NoPart == [hasFile |-> FALSE, originalname |-> <<>>, mimetype |-> "", size |-> "small",
           content |-> <<>>]

Requests ==
    {NoPart} \cup
    [hasFile : {TRUE}, originalname : FileNames, mimetype : MimeTypes, size : Sizes,
     content : UploadDocs]

\* name.toLowerCase() of a piece of a file name
LowerPiece(piece) == IF piece = "MD" THEN "md" ELSE piece

\* fileFilter: whether the variant accepts the file.
FileFilter(v, file) ==
    LET name == file.originalname
        last == name[Len(name)]
    IN CASE v = "index_a" -> LowerPiece(last) \in {"txt", "md"}
         [] v = "index_b" -> \/ file.mimetype \in {"text/plain", "text/markdown"}
                             \/ (Len(name) >= 2 /\ last \in {"txt", "md"})
         [] v = "part_000" -> Len(name) >= 2 /\ LowerPiece(last) \in {"txt", "md"}
         [] OTHER -> TRUE

\* limits.fileSize: whether the file is over the limit of the variant.
OverLimit(v, file) ==
    CASE v \in {"index_a", "part_000"} -> file.size \in {"medium", "large"}
      [] v = "index_b" -> file.size = "large"
      [] OTHER -> FALSE

\* upload.single('homeworkFile'): the error handed to the callback and
\* whether req.file is set.
Multer(v, req) ==
    IF ~req.hasFile THEN [err |-> FALSE, file |-> FALSE]
    ELSE IF ~FileFilter(v, req) \/ OverLimit(v, req) THEN [err |-> TRUE, file |-> FALSE]
    ELSE [err |-> FALSE, file |-> TRUE]

\* res.status(status).json(body); success is "absent" for a body without the
\* field.
Json(status, success, data, hasError) ==
    [status |-> status, success |-> success, data |-> data, hasError |-> hasError]

\* The body of an error answer of the variant: index_b and part_001 answer
\* { error: ... } alone.
ErrorJson(v, status) ==
    Json(status, IF v \in {"index_a", "part_000"} THEN "false" ELSE "absent", <<>>, TRUE)

\* if (req.file.buffer.length > 10 * 1024 * 1024) throw new Error('文件过大')
TooLarge(v, file) == v = "part_000" /\ file.size = "large"

\* A whole call of parseFileContent: what it returns, or that it threw.
ParseCall(v, disk, in) ==
    IF ContentOf(v, disk, in).ok
    THEN [threw |-> FALSE, value |-> ParseString(v, ContentOf(v, disk, in).chars)]
    ELSE [threw |-> TRUE, value |-> <<>>]

\* The answers the handler sends for a request, in order.  The memory
\* variants hand the parser the text of the buffer (req.content stands for
\* the decoded text), the disk variant the path of the file multer wrote.
UploadHandler(v, disk, req) ==
    LET m == Multer(v, req)
        written == IF v = "part_001" /\ m.file THEN File(req.content) ELSE disk
        argument == IF v = "part_001" THEN Str(UploadPath) ELSE Str(req.content)
        parsed == ParseCall(v, written, argument)
    IN IF m.err THEN <<ErrorJson(v, 400)>>
       ELSE IF ~m.file THEN <<ErrorJson(v, 400)>>
       ELSE IF TooLarge(v, req) \/ parsed.threw
            THEN <<ErrorJson(v, IF v = "part_001" THEN 500 ELSE 400)>>
       ELSE <<Json(200, "true", parsed.value, FALSE)>>

\* What the disk holds after the request: multer's disk storage writes the
\* file before the handler runs, and the handler removes it unless NODE_ENV is
\* production.
DiskAfter(v, env, disk, req) ==
    IF v = "part_001" /\ Multer(v, req).file
    THEN IF env = "production" THEN File(req.content) ELSE NoFile
    ELSE disk

Upload ==
    /\ pc = "idle"
    /\ handled < MaxRequests
    /\ \E req \in Requests :
          /\ exchange' = [request |-> req, sent |-> UploadHandler(variant, fs, req)]
          /\ fs' = DiskAfter(variant, nodeEnv, fs, req)
    /\ handled' = handled + 1
    /\ UNCHANGED <<variant, nodeEnv, pc, input, lines, i, result, currentSubject,
                   retval, ncalls, history>>

InitUpload ==
    /\ variant \in Variants
    /\ nodeEnv \in (IF variant = "part_001" THEN {"development", "production"}
                    ELSE {"development"})
    /\ fs = NoFile
    /\ pc = "idle"
    /\ input = Null
    /\ lines = <<>>
    /\ i = 1
    /\ result = <<>>
    /\ currentSubject = 0
    /\ retval = NoValue
    /\ ncalls = 0
    /\ history = <<>>
    /\ exchange = NoExchange
    /\ handled = 0

NextUpload == Upload

SpecUpload == InitUpload /\ [][NextUpload]_vars

(***************************************************************************)
(* C8: every request gets exactly one answer, and its body is either       *)
(* { success: true, data } when the file was received and parsed, or       *)
(* { success: false, error } on every fault path.                          *)
(***************************************************************************)
C8_OneEnvelopePerRequest ==
    handled > 0 =>
        /\ Len(exchange.sent) = 1
        /\ LET r == exchange.sent[1] IN
           \/ r.success = "true" /\ ~r.hasError /\ Multer(variant, exchange.request).file
           \/ r.success = "false" /\ r.hasError

====
